---- MODULE Spec2Model ----
(***************************************************************************)
(* mason::audio::CompressorNode (src/src/mason/audio/CompressorNode.cpp):  *)
(* the look-ahead delay line, the cached static curve, the detector and    *)
(* the gain envelope, as a state machine with one step per call and, in    *)
(* process(), one step per 32-frame division and per frame.                *)
(*                                                                         *)
(* A float is an integer count of millionths (One = 1.0), with three       *)
(* values set aside for NaN, +Inf and -Inf; arithmetic follows IEEE-754    *)
(* for the special values and truncates finite results to a millionth.     *)
(***************************************************************************)
EXTENDS Integers, Sequences, FiniteSets, TLC

\* ------------------------------------------------------------------ floats

One == 1000 * 1000
Kilo == 10 * 100
\* the largest finite magnitude the representation keeps (2000.0)
FMax == 2000 * One
PInf == 2147483646
NInf == -2147483646
NaN == 2147483647

isnan(x) == x = NaN
isinf(x) == x = PInf \/ x = NInf
IsFinite(x) == ~isnan(x) /\ ~isinf(x)

Abs(n) == IF n < 0 THEN -n ELSE n
Sign(n) == IF n < 0 THEN -1 ELSE 1

\* a * b / One for 0 <= a, b, when the result is at most FMax
MulS(a, b) ==
    LET a1 == a \div Kilo
        a0 == a % Kilo
        b1 == b \div Kilo
        b0 == b % Kilo
    IN  a1 * b1 + ((a1 * b0 + a0 * b1 + ((a0 * b0) \div Kilo)) \div Kilo)

\* whether a * b / One exceeds FMax, for 0 <= a, b
MulOverflows(a, b) ==
    LET a1 == a \div Kilo
        b1 == b \div Kilo
    IN  a1 > 0 /\ b1 > FMax \div a1

\* the next n decimal digits of r / b, appended to q (0 <= r < b <= 2 * 10^8)
RECURSIVE DivDigits(_, _, _, _)
DivDigits(q, r, b, n) ==
    IF n = 0 THEN q
    ELSE DivDigits(q * 10 + ((r * 10) \div b), (r * 10) % b, b, n - 1)

\* a * One / b for 0 <= a, 0 < b, when the result is at most FMax
DivS(a, b) ==
    LET big == b > 200 * One
        aa == IF big THEN a \div 10 ELSE a
        bb == IF big THEN b \div 10 ELSE b
    IN  DivDigits(aa \div bb, aa % bb, bb, 6)

DivOverflows(a, b) == a \div b >= FMax \div One

FNeg(a) == IF isnan(a) THEN NaN ELSE -a

FAdd(a, b) ==
    IF isnan(a) \/ isnan(b) THEN NaN
    ELSE IF isinf(a) THEN (IF isinf(b) /\ a # b THEN NaN ELSE a)
    ELSE IF isinf(b) THEN b
    ELSE IF a > 0 /\ b > FMax - a THEN PInf
    ELSE IF a < 0 /\ b < -FMax - a THEN NInf
    ELSE a + b

FSub(a, b) == FAdd(a, FNeg(b))

FMul(a, b) ==
    IF isnan(a) \/ isnan(b) THEN NaN
    ELSE IF isinf(a) \/ isinf(b)
         THEN (IF a = 0 \/ b = 0 THEN NaN
               ELSE IF Sign(a) = Sign(b) THEN PInf ELSE NInf)
    ELSE IF MulOverflows(Abs(a), Abs(b))
         THEN (IF Sign(a) = Sign(b) THEN PInf ELSE NInf)
    ELSE Sign(a) * Sign(b) * MulS(Abs(a), Abs(b))

FDiv(a, b) ==
    IF isnan(a) \/ isnan(b) THEN NaN
    ELSE IF isinf(a)
         THEN (IF isinf(b) THEN NaN
               ELSE IF Sign(a) = Sign(b) THEN PInf ELSE NInf)
    ELSE IF isinf(b) THEN 0
    ELSE IF b = 0
         THEN (IF a = 0 THEN NaN ELSE IF a > 0 THEN PInf ELSE NInf)
    ELSE IF DivOverflows(Abs(a), Abs(b))
         THEN (IF Sign(a) = Sign(b) THEN PInf ELSE NInf)
    ELSE Sign(a) * Sign(b) * DivS(Abs(a), Abs(b))

\* the comparisons are false when an operand is NaN
FLt(a, b) == ~isnan(a) /\ ~isnan(b) /\ a < b
FGt(a, b) == FLt(b, a)
FLe(a, b) == ~isnan(a) /\ ~isnan(b) /\ a <= b
FNe(a, b) == isnan(a) \/ isnan(b) \/ a # b

\* std::min( a, b ) is (b < a) ? b : a and std::max( a, b ) is (a < b) ? b : a
StdMin(a, b) == IF FLt(b, a) THEN b ELSE a
StdMax(a, b) == IF FLt(a, b) THEN b ELSE a

\* ------------------------------------------------------- libm, approximated
\* Each function is computed by range reduction and a truncated power series,
\* accurate to a few millionths on the values the compressor uses.

Ln2 == 693147
Ln10 == 2302585
HalfPi == 1570796

\* 1 + r/i * ( 1 + r/(i+1) * ( ... ) ): the series of e^r, 0 <= r < ln 2
RECURSIVE ExpSeries(_, _)
ExpSeries(r, i) ==
    IF i > 11 THEN One ELSE One + (MulS(r, ExpSeries(r, i + 1)) \div i)

RECURSIVE Pow2(_)
Pow2(n) == IF n = 0 THEN 1 ELSE 2 * Pow2(n - 1)

expf(x) ==
    IF isnan(x) THEN NaN
    ELSE IF x = PInf THEN PInf
    ELSE IF x = NInf THEN 0
    ELSE IF x > 7600902 THEN PInf
    ELSE IF x < -14 * One THEN 0
    ELSE LET n == x \div Ln2
             r == x - n * Ln2
             er == ExpSeries(r, 1)
         IN  IF n >= 0 THEN er * Pow2(n) ELSE er \div Pow2(-n)

\* x = m * 2^n with One <= m < 2 * One, for x > 0
RECURSIVE LnNorm(_, _)
LnNorm(m, n) ==
    IF m >= 2 * One THEN LnNorm(m \div 2, n + 1)
    ELSE IF m < One THEN LnNorm(m * 2, n - 1)
    ELSE <<m, n>>

\* 2 * atanh( t ) = ln( ( 1 + t ) / ( 1 - t ) ) by its series, t2 = t * t
AtanhSeries(t, t2) ==
    2 * MulS(t, One + MulS(t2, (One \div 3) + MulS(t2, (One \div 5)
                 + MulS(t2, (One \div 7) + MulS(t2, (One \div 9)
                 + MulS(t2, One \div 11))))))

LnOfNorm(mn, t) == mn[2] * Ln2 + AtanhSeries(t, MulS(t, t))

LnOf(mn) == LnOfNorm(mn, DivS(mn[1] - One, mn[1] + One))

logf(x) ==
    IF isnan(x) THEN NaN
    ELSE IF x = PInf THEN PInf
    ELSE IF x < 0 THEN NaN
    ELSE IF x = 0 THEN NInf
    ELSE LnOf(LnNorm(x, 0))

log10f(x) == FDiv(logf(x), Ln10)

\* powf( x, y ) for x >= 0
powf(x, y) ==
    IF isnan(x) \/ isnan(y) THEN NaN
    ELSE IF y = 0 THEN One
    ELSE IF x < 0 THEN NaN
    ELSE IF x = 0 THEN (IF y > 0 THEN 0 ELSE PInf)
    ELSE expf(FMul(y, logf(x)))

sqrtf(x) == powf(x, One \div 2)

\* sin on [0, pi/2]
SinSeries(x) ==
    LET t == MulS(x, x)
        s == One - (MulS(t, One - (MulS(t, One - (MulS(t, One - (MulS(t, One
                 - (MulS(t, One - (MulS(t, One) \div 156)) \div 110)) \div 72))
                 \div 42)) \div 20)) \div 6)
    IN  MulS(x, s)

sinf(x) ==
    IF ~IsFinite(x) THEN NaN
    ELSE LET a == Abs(x) % (4 * HalfPi)
             q == a \div HalfPi
             r == a % HalfPi
             v == CASE q = 0 -> SinSeries(r)
                    [] q = 1 -> SinSeries(HalfPi - r)
                    [] q = 2 -> -SinSeries(r)
                    [] OTHER -> -SinSeries(HalfPi - r)
         IN  Sign(x) * v

\* asin on [0, 1/2] by its series
AsinSeries(x) ==
    LET t == MulS(x, x)
        s == One + MulS(t, 166667 + MulS(t, 75000 + MulS(t, 44643
                 + MulS(t, 30382 + MulS(t, 22372 + MulS(t, 17353
                 + MulS(t, 13965 + MulS(t, 11552))))))))
    IN  MulS(x, s)

\* asin on [0, 1]: asin x = pi/2 - 2 asin sqrt( (1 - x) / 2 ) above 1/2
AsinPos(x) ==
    IF x <= One \div 2 THEN AsinSeries(x)
    ELSE HalfPi - 2 * AsinSeries(sqrtf((One - x) \div 2))

asinf(x) ==
    IF ~IsFinite(x) \/ Abs(x) > One THEN NaN
    ELSE Sign(x) * AsinPos(Abs(x))

\* ------------------------------------------------------------- constants

MaxPreDelayFrames == 1024
MaxPreDelayFramesMask == MaxPreDelayFrames - 1
DefaultPreDelayFrames == 256
nDivisionFrames == 32

\* mutant: the index is advanced without the mask
MaskIndexNone(i) == i

\* i & MaxPreDelayFramesMask, for 0 <= i (MaxPreDelayFrames is a power of two)
MaskIndex(i) == i % (MaxPreDelayFramesMask + 1)

\* ------------------------------------------------------------ curve model
\* The steepness k runs up to 10000, beyond FMax: it is kept in thousands
\* (K = k / 1000), and KMul and KDiv multiply and divide by the k it stands for.

KMul(K, v) ==
    IF IsFinite(K) /\ Abs(K) <= FMax \div Kilo THEN FMul(K * Kilo, v)
    ELSE FMul(FMul(K, v), Kilo * One)

KDiv(v, K) ==
    IF IsFinite(K) /\ Abs(K) <= FMax \div Kilo THEN FDiv(v, K * Kilo)
    ELSE FDiv(FDiv(v, K), Kilo * One)

decibelsToLinear(decibels) ==
    expf(FMul(Ln10, FMul(50000, decibels)))

linearToDecibels(linear) == FMul(20 * One, log10f(linear))

\* 1 - exp( -1 / ( sampleRate * timeConstant ) ), sampleRate in kHz
discreteTimeConstantForSampleRate(timeConstant, sampleRate) ==
    FSub(One, expf(FNeg(FDiv(One \div Kilo, FMul(sampleRate, timeConstant)))))

\* mutant: the exponential knee is applied below the threshold as well
kneeCurveEverywhere(c, x, k) ==
    FAdd(c.m_linearThreshold,
         KDiv(FSub(One, expf(FNeg(KMul(k, FSub(x, c.m_linearThreshold))))), k))

\* c holds the cached members m_linearThreshold ... m_K
kneeCurve(c, x, k) ==
    IF FLt(x, c.m_linearThreshold) THEN x
    ELSE FAdd(c.m_linearThreshold,
              KDiv(FSub(One, expf(FNeg(KMul(k, FSub(x, c.m_linearThreshold))))), k))

saturate(c, x, k) ==
    IF FLt(x, c.m_kneeThreshold) THEN kneeCurve(c, x, k)
    ELSE LET xDb == linearToDecibels(x)
             yDb == FAdd(c.m_ykneeThresholdDb,
                         FMul(c.m_slope, FSub(xDb, c.m_kneeThresholdDb)))
         IN  decibelsToLinear(yDb)

slopeAt(c, x, k) ==
    IF FLt(x, c.m_linearThreshold) THEN One
    ELSE LET x2 == FMul(x, 1001000)
             xDb == linearToDecibels(x)
             x2Db == linearToDecibels(x2)
             yDb == linearToDecibels(kneeCurve(c, x, k))
             y2Db == linearToDecibels(kneeCurve(c, x2, k))
         IN  FDiv(FSub(y2Db, yDb), FSub(x2Db, xDb))

\* the bounds and the k an iteration of the solve leaves: below is
\* slope < desiredSlope
kNarrow(p, below) ==
    IF below
    THEN [minK |-> p.minK, maxK |-> p.k, k |-> FMul(sqrtf(p.minK), sqrtf(p.k))]
    ELSE [minK |-> p.k, maxK |-> p.maxK, k |-> FMul(sqrtf(p.k), sqrtf(p.maxK))]

kStep(c, x, desiredSlope, p) ==
    kNarrow(p, FLt(slopeAt(c, x, p.k), desiredSlope))

\* k after n more iterations (a k that is NaN stays NaN)
RECURSIVE kSolve(_, _, _, _, _)
kSolve(c, x, desiredSlope, p, n) ==
    IF isnan(p.k) \/ n = 0 THEN p.k
    ELSE kSolve(c, x, desiredSlope, kStep(c, x, desiredSlope, p), n - 1)

\* k, minK and maxK are kept in thousands: 0.1, 10000 and 5
kAtSlope(c, desiredSlope) ==
    LET xDb == FAdd(c.m_dbThreshold, c.m_dbKnee)
        x == decibelsToLinear(xDb)
    IN  kSolve(c, x, desiredSlope,
               [minK |-> 100, maxK |-> 10 * One, k |-> 5 * Kilo], 15)

\* the cached members when kAtSlope is called
CurveBeforeSolve(c, dbThreshold, dbKnee, ratio) ==
    [c EXCEPT !.m_dbThreshold = dbThreshold,
              !.m_linearThreshold = decibelsToLinear(dbThreshold),
              !.m_dbKnee = dbKnee,
              !.m_ratio = ratio,
              !.m_slope = FDiv(One, ratio)]

KneeOf(c, kneeThresholdDb) ==
    [c EXCEPT !.m_kneeThresholdDb = kneeThresholdDb,
              !.m_kneeThreshold = decibelsToLinear(kneeThresholdDb)]

YKneeOf(c, k) ==
    [c EXCEPT !.m_ykneeThresholdDb =
                  linearToDecibels(kneeCurve(c, c.m_kneeThreshold, k)),
              !.m_K = k]

\* the cached members after the solve gave k
CurveAfterSolve(c, k) ==
    YKneeOf(KneeOf(c, FAdd(c.m_dbThreshold, c.m_dbKnee)), k)

CurveSolved(c) == CurveAfterSolve(c, kAtSlope(c, FDiv(One, c.m_ratio)))

\* mutant: the curve is recomputed whether or not the triple differs
updateStaticCurveParametersAlways(cv, dbThreshold, dbKnee, ratio) ==
    [c |-> CurveSolved(CurveBeforeSolve(cv.c, dbThreshold, dbKnee, ratio)),
     solves |-> cv.solves + 1,
     updates |-> cv.updates + 1]

\* cv.c holds the cached members; cv.solves counts the runs of kAtSlope and
\* cv.updates the calls of updateStaticCurveParameters
updateStaticCurveParameters(cv, dbThreshold, dbKnee, ratio) ==
    IF FNe(dbThreshold, cv.c.m_dbThreshold) \/ FNe(dbKnee, cv.c.m_dbKnee)
          \/ FNe(ratio, cv.c.m_ratio)
    THEN [c |-> CurveSolved(CurveBeforeSolve(cv.c, dbThreshold, dbKnee, ratio)),
          solves |-> cv.solves + 1,
          updates |-> cv.updates + 1]
    ELSE [cv EXCEPT !.updates = @ + 1]

\* ------------------------------------------------------------------ bounds

\* channels of the node and of the blocks it is given
NumChannels == 2
\* calls of initialize, reset, setPreDelayTime, a parameter's setValue and
\* process in one run
MaxCalls == 2

Channels == 0..(NumChannels - 1)

\* sample rates, in kHz: 2 kHz, 44.1 kHz, 192 kHz
SampleRates == {2 * One, 44100 * Kilo, 192 * One}

\* pre-delay times a caller of setPreDelayTime passes, in seconds
PreDelayTimes == {30000, -6000}

DefaultParam ==
    [threshold |-> -24 * One, ratio |-> 12 * One, knee |-> 30 * One,
     attackTime |-> 3000, releaseTime |-> 250000]

\* values the five parameters are set to
ParamChoices ==
    {DefaultParam,
     [threshold |-> -12 * One, ratio |-> 4 * One, knee |-> 6 * One,
      attackTime |-> 500, releaseTime |-> 100000]}

Signals == {"silence", "tone", "loud", "quiet", "nonfinite"}

\* sample f of channel ch of a block carrying signal sig
Signal(sig, ch, f) ==
    CASE sig = "silence" -> 0
      [] sig = "tone" ->
            (IF ch % 2 = 0 THEN 1 ELSE -1) * (((f + 2 * ch) % 4) + 1) * (One \div 10)
      [] sig = "loud" -> IF ch % 2 = 0 THEN 4 * One ELSE -3 * One
      [] sig = "quiet" -> IF ch % 2 = 0 THEN 30000 ELSE 50
      [] sig = "nonfinite" ->
            IF (f = 1 /\ ch = 0) \/ f = 2 THEN NaN
            ELSE IF f = 5 /\ ch = 0 THEN PInf
            ELSE IF f = 8 /\ ch = NumChannels - 1 THEN NInf
            ELSE One \div 5

\* the blocks process() is given: number of frames and signal
Blocks ==
    {<<32, "silence">>, <<32, "quiet">>, <<32, "nonfinite">>, <<40, "tone">>,
     <<64, "loud">>, <<20, "tone">>}

\* ------------------------------------------------------------------- state

VARIABLES
    \* the node
    sampleRate,                   \* getSampleRate(), in kHz
    param,                        \* the values of mParamThreshold ... mParamReleaseTime
    m_meteringReleaseK,
    m_lastPreDelayFrames, m_preDelayReadIndex, m_preDelayWriteIndex,
    mPreDelayBuffer,              \* [channel -> its non-zero samples]
    curve,                        \* m_ratio ... m_K, and how often kAtSlope ran
    m_detectorAverage, m_compressorGain, m_meteringGain,
    m_maxAttackCompressionDiffDb,
    \* the running call of process()
    pc,                           \* "idle", "division" (line 305) or "loop" (line 395)
    buffer,                       \* the caller's block, [channel -> sequence of samples]
    framesToProcess, nDivisions, division, frameIndex, loopFrames,
    blk,                          \* k, masterLinearGain, ..., kE of lines 258-296
    env,                          \* scaledDesiredGain, envelopeRate, ... of lines 316-382
    preDelayReadIndex, preDelayWriteIndex, detectorAverage, compressorGain,
    last,                         \* what the latest iteration of the inner loop computed
    \* the run so far
    op,                           \* the latest call
    calls,
    hist,                         \* the samples written since the buffer was last zeroed
    change                        \* the latest delay change: the frames processed
                                  \* since, and whether the buffer held a non-zero
                                  \* sample at it or at a change before it with no
                                  \* frame processed between them

\* the comparison of two runs of the node, made one after the other
VARIABLES
    phase,                        \* 0: no comparison; 1: first run; 2: second run
    script,                       \* the calls of the first run
    recorded,                     \* what the first run showed after each step
    pos                           \* the steps of the second run so far

meterVars == <<phase, script, recorded, pos>>

nodeVars == <<sampleRate, param, m_meteringReleaseK, m_lastPreDelayFrames,
              m_preDelayReadIndex, m_preDelayWriteIndex, mPreDelayBuffer, curve,
              m_detectorAverage, m_compressorGain, m_meteringGain,
              m_maxAttackCompressionDiffDb>>
callVars == <<pc, buffer, framesToProcess, nDivisions, division, frameIndex,
              loopFrames, blk, env, preDelayReadIndex, preDelayWriteIndex,
              detectorAverage, compressorGain, last>>
runVars == <<op, calls, hist, change>>
vars == <<nodeVars, callVars, runVars>>

\* The look-ahead buffer holds MaxPreDelayFrames samples per channel. A channel
\* is kept as the function from the indices that hold a non-zero sample to that
\* sample: every other index holds 0.
ZeroBuffer == [ch \in Channels |-> [i \in {} |-> 0]]

BufferAt(chan, i) == IF i \in DOMAIN chan THEN chan[i] ELSE 0

BufferPut(chan, i, v) ==
    IF v = 0 THEN [j \in DOMAIN chan \ {i} |-> chan[j]]
    ELSE [j \in DOMAIN chan \cup {i} |-> IF j = i THEN v ELSE chan[j]]

Silent(buf) == \A ch \in Channels : DOMAIN buf[ch] = {}

\* ------------------------------------------------- initialize, reset, delay

UninitializedCurve ==
    [m_ratio |-> -One, m_slope |-> -One, m_linearThreshold |-> -One,
     m_dbThreshold |-> -One, m_dbKnee |-> -One, m_kneeThreshold |-> -One,
     m_kneeThresholdDb |-> -One, m_ykneeThresholdDb |-> -One,
     m_K |-> -One \div Kilo]

\* the members reset() assigns
reset ==
    /\ m_detectorAverage' = 0
    /\ m_compressorGain' = One
    /\ m_meteringGain' = One
    /\ mPreDelayBuffer' = ZeroBuffer
    /\ m_preDelayReadIndex' = 0
    /\ m_preDelayWriteIndex' = DefaultPreDelayFrames
    /\ m_maxAttackCompressionDiffDb' = -One
    /\ hist' = <<>>

\* unsigned preDelayFrames = preDelayTime * getSampleRate(): the values the
\* conversion can give. Converting a float that is negative, NaN or beyond the
\* range of unsigned is undefined: builds give zero or a large value.
PreDelayFramesOf(preDelayTime, sr) ==
    LET kiloFrames == FMul(preDelayTime, sr)
    IN  IF IsFinite(kiloFrames) /\ kiloFrames >= 0
        THEN {kiloFrames \div Kilo}
        ELSE {0, 2147483647}

\* mutant: the frame count is not clamped
ClampPreDelayFramesNone(preDelayFrames) == preDelayFrames

ClampPreDelayFrames(preDelayFrames) ==
    IF preDelayFrames > MaxPreDelayFrames - 1
    THEN MaxPreDelayFrames - 1
    ELSE preDelayFrames

\* mutant: a changed delay moves the write index but leaves the read index
setPreDelayTimeKeepsReadIndex(preDelayTime) ==
    \E converted \in PreDelayFramesOf(preDelayTime, sampleRate) :
        LET preDelayFrames == ClampPreDelayFrames(converted)
        IN  IF m_lastPreDelayFrames # preDelayFrames
            THEN /\ m_lastPreDelayFrames' = preDelayFrames
                 /\ mPreDelayBuffer' = ZeroBuffer
                 /\ m_preDelayWriteIndex' = preDelayFrames
                 /\ hist' = <<>>
                 /\ change' = [active |-> TRUE, frames |-> 0,
                               nonSilent |-> ~Silent(mPreDelayBuffer)]
                 /\ UNCHANGED m_preDelayReadIndex
            ELSE UNCHANGED <<m_lastPreDelayFrames, mPreDelayBuffer,
                             m_preDelayReadIndex, m_preDelayWriteIndex,
                             hist, change>>

setPreDelayTime(preDelayTime) ==
    \E converted \in PreDelayFramesOf(preDelayTime, sampleRate) :
        LET preDelayFrames == ClampPreDelayFrames(converted)
        IN  IF m_lastPreDelayFrames # preDelayFrames
            THEN /\ m_lastPreDelayFrames' = preDelayFrames
                 /\ mPreDelayBuffer' = ZeroBuffer
                 /\ m_preDelayReadIndex' = 0
                 /\ m_preDelayWriteIndex' = preDelayFrames
                 /\ hist' = <<>>
                 /\ change' = [active |-> TRUE, frames |-> 0,
                               nonSilent |->
                                   \/ ~Silent(mPreDelayBuffer)
                                   \/ change.nonSilent /\ change.frames = 0]
            ELSE UNCHANGED <<m_lastPreDelayFrames, mPreDelayBuffer,
                             m_preDelayReadIndex, m_preDelayWriteIndex,
                             hist, change>>

NoChange == [active |-> FALSE, frames |-> 0, nonSilent |-> FALSE]

NoBlk == [k |-> 0, masterLinearGain |-> 0, attackFrames |-> 0,
          satReleaseFrames |-> 0, kA |-> 0, kB |-> 0, kC |-> 0, kD |-> 0,
          kE |-> 0]
NoEnv == [m_maxAttackCompressionDiffDb |-> -One, scaledDesiredGain |-> 0,
          isReleasing |-> FALSE, compressionDiffDb |-> 0, envelopeRate |-> 0]
NoLast == [undelayedSource |-> [ch \in Channels |-> 0], compressorInput |-> 0,
           attenuation |-> 0, rawDetectorAverage |-> 0,
           delayed |-> [ch \in Channels |-> 0], totalGain |-> 0,
           frame |-> -1]

\* ------------------------------------------------------------ file watcher

\* files, by their full path
FullPaths == {"/a", "/assets/b"}

\* what findFullFilePath gives for a path it cannot resolve
Thrown == "FileWatcherException"

\* filePath.is_absolute()
IsAbsolute(filePath) == filePath \in {"/a", "/assets/b", "/missing"}

\* app::getAssetPath( filePath ): "b" is an asset, nothing else is
getAssetPath(filePath) == IF filePath = "b" THEN "/assets/b" ELSE ""

\* disk is the set of the files that exist
findFullFilePath(filePath, disk) ==
    IF filePath = "" THEN Thrown
    ELSE IF IsAbsolute(filePath) /\ filePath \in disk THEN filePath
    ELSE IF getAssetPath(filePath) \notin disk THEN Thrown
    ELSE getAssetPath(filePath)

VARIABLES
    mWatchList,                   \* sequence of watches
    mMutex,                       \* who holds it: "none", "worker" or "update"
    fileTime,                     \* fs::last_write_time of the files
    onDisk,                       \* the files that exist
    wpc, wcall,                   \* the thread calling load() and watch()
    upc, it,                      \* update() on the main thread
    emitted,                      \* the callbacks emitted, in order
    lastUpdate,                   \* how the latest update() call ended
    pending,                      \* the watches discarded when it began
    left,                         \* those of them still listed when it returned
    checkedDiscarded,             \* whether checkCurrent() ran on a discarded watch
    fwOp, fwCalls, envSteps, fsErrors, nextId

watchVars == <<mWatchList, mMutex, fileTime, onDisk, wpc, wcall,
               upc, it, emitted, lastUpdate, pending, left,
               checkedDiscarded, fwOp, fwCalls, envSteps, fsErrors, nextId>>

NoCall == [kind |-> "none"]

InitWatcher ==
    /\ mWatchList = <<>>
    /\ mMutex = "none"
    /\ fileTime = [f \in FullPaths |-> IF f = "/a" THEN 0 ELSE 1]
    /\ onDisk = FullPaths
    /\ wpc = "idle"
    /\ wcall = NoCall
    /\ upc = "idle"
    /\ it = 1
    /\ emitted = <<>>
    /\ lastUpdate = "none"
    /\ pending = {}
    /\ left = {}
    /\ checkedDiscarded = FALSE
    /\ fwOp = [op |-> "none", thrown |-> FALSE, path |-> "", paths |-> <<>>]
    /\ fwCalls = 0
    /\ envSteps = 0
    /\ fsErrors = 0
    /\ nextId = 1

\* the constructor's parameter values, then initialize() at a sample rate
Init ==
    /\ sampleRate \in SampleRates
    /\ param = DefaultParam
    /\ m_meteringReleaseK =
           discreteTimeConstantForSampleRate(325000, sampleRate)
    /\ m_lastPreDelayFrames = DefaultPreDelayFrames
    /\ m_preDelayReadIndex = 0
    /\ m_preDelayWriteIndex = DefaultPreDelayFrames
    /\ mPreDelayBuffer = ZeroBuffer
    /\ curve = [c |-> UninitializedCurve, solves |-> 0, updates |-> 0]
    /\ m_detectorAverage = 0
    /\ m_compressorGain = One
    /\ m_meteringGain = One
    /\ m_maxAttackCompressionDiffDb = -One
    /\ pc = "idle"
    /\ buffer = [ch \in Channels |-> <<>>]
    /\ framesToProcess = 0
    /\ nDivisions = 0
    /\ division = 0
    /\ frameIndex = 0
    /\ loopFrames = 0
    /\ blk = NoBlk
    /\ env = NoEnv
    /\ preDelayReadIndex = 0
    /\ preDelayWriteIndex = 0
    /\ detectorAverage = 0
    /\ compressorGain = 0
    /\ last = NoLast
    /\ op = "initialize"
    /\ calls = 0
    /\ hist = <<>>
    /\ change = NoChange
    /\ phase = 0
    /\ script = <<>>
    /\ recorded = <<>>
    /\ pos = 0
    /\ InitWatcher

Initialize(sr) ==
    /\ pc = "idle"
    /\ sampleRate' = sr
    /\ m_lastPreDelayFrames' = DefaultPreDelayFrames
    /\ curve' = [curve EXCEPT !.c = UninitializedCurve]
    /\ reset
    /\ m_meteringReleaseK' = discreteTimeConstantForSampleRate(325000, sr)
    /\ change' = NoChange
    /\ op' = "initialize"
    /\ calls' = calls + 1
    /\ UNCHANGED <<param, callVars>>

\* mutant: reset() also forgets the cached curve
ResetForgetsCurve ==
    /\ pc = "idle"
    /\ reset
    /\ curve' = [curve EXCEPT !.c = UninitializedCurve]
    /\ op' = "reset"
    /\ calls' = calls + 1
    /\ UNCHANGED <<sampleRate, param, m_meteringReleaseK, m_lastPreDelayFrames,
                   callVars, change>>

Reset ==
    /\ pc = "idle"
    /\ reset
    /\ op' = "reset"
    /\ calls' = calls + 1
    /\ UNCHANGED <<sampleRate, param, m_meteringReleaseK, m_lastPreDelayFrames,
                   curve, callVars, change>>

SetPreDelayTime(preDelayTime) ==
    /\ pc = "idle"
    /\ setPreDelayTime(preDelayTime)
    /\ op' = "setPreDelayTime"
    /\ calls' = calls + 1
    /\ UNCHANGED <<sampleRate, param, m_meteringReleaseK, curve,
                   m_detectorAverage, m_compressorGain, m_meteringGain,
                   m_maxAttackCompressionDiffDb, callVars>>

\* setValue() on the parameters, between two blocks
SetParam(p) ==
    /\ pc = "idle"
    /\ p # param
    /\ param' = p
    /\ op' = "setValue"
    /\ calls' = calls + 1
    /\ UNCHANGED <<sampleRate, m_meteringReleaseK, m_lastPreDelayFrames,
                   m_preDelayReadIndex, m_preDelayWriteIndex, mPreDelayBuffer,
                   curve, m_detectorAverage, m_compressorGain, m_meteringGain,
                   m_maxAttackCompressionDiffDb, callVars, hist,
                   change>>

\* ------------------------------------------------------------------ process

\* y1 * c1 + y2 * c2 + y3 * c3 + y4 * c4
Poly4(y, c1, c2, c3, c4) ==
    FAdd(FAdd(FAdd(FMul(c1, y[1]), FMul(c2, y[2])), FMul(c3, y[3])),
         FMul(c4, y[4]))

\* mutant: no makeup gain, masterLinearGain is the post gain alone
BlockCoefficientsUnity(cv, p, sr) ==
    LET attackTime == StdMax(1000, p.attackTime)
        releaseFrames == FMul(sr, p.releaseTime)
        y == <<FMul(releaseFrames, 90000), FMul(releaseFrames, 160000),
               FMul(releaseFrames, 420000), FMul(releaseFrames, 980000)>>
    IN  [k |-> cv.c.m_K,
         masterLinearGain |-> decibelsToLinear(0),
         attackFrames |-> FMul(attackTime, sr),
         satReleaseFrames |-> FMul(2500, sr),
         kA |-> Poly4(y, One, 0, 0, 0),
         kB |-> Poly4(y, -1578832, 2330584, -914119, 162368),
         kC |-> Poly4(y, 533414, -1272737, 925886, -186563),
         kD |-> Poly4(y, 87835, -169416, 85881, -4299),
         kE |-> Poly4(y, -42417, 111569, -97647, 28494)]

\* the values process() computes once per block from the parameters. Frame
\* counts are in thousands of frames, as sampleRate is in kHz.
BlockCoefficients(cv, p, sr) ==
    LET k == cv.c.m_K
        fullRangeGain == saturate(cv.c, One, k)
        fullRangeMakeupGain == powf(FDiv(One, fullRangeGain), 600000)
        attackTime == StdMax(1000, p.attackTime)
        releaseFrames == FMul(sr, p.releaseTime)
        y == <<FMul(releaseFrames, 90000), FMul(releaseFrames, 160000),
               FMul(releaseFrames, 420000), FMul(releaseFrames, 980000)>>
    IN  [k |-> k,
         masterLinearGain |-> FMul(decibelsToLinear(0), fullRangeMakeupGain),
         attackFrames |-> FMul(attackTime, sr),
         satReleaseFrames |-> FMul(2500, sr),
         kA |-> Poly4(y, One, 0, 0, 0),
         kB |-> Poly4(y, -1578832, 2330584, -914119, 162368),
         kC |-> Poly4(y, 533414, -1272737, 925886, -186563),
         kD |-> Poly4(y, 87835, -169416, 85881, -4299),
         kE |-> Poly4(y, -42417, 111569, -97647, 28494)]

\* if( std::isnan( v ) ) v = fix; if( std::isinf( v ) ) v = fix;
FixGremlins(v, fix) == IF isnan(v) \/ isinf(v) THEN fix ELSE v

\* the adaptive release rate of a sub-block
ReleaseRate(b, compressionDiffDb) ==
    LET x == FMul(250000,
                  FAdd(StdMin(0, StdMax(-12 * One, compressionDiffDb)), 12 * One))
        x2 == FMul(x, x)
        x3 == FMul(x2, x)
        x4 == FMul(x2, x2)
        releaseFrames ==
            FAdd(FAdd(FAdd(FAdd(b.kA, FMul(b.kB, x)), FMul(b.kC, x2)),
                      FMul(b.kD, x3)), FMul(b.kE, x4))
        dbPerFrame == FDiv(5 * Kilo, releaseFrames)
    IN  decibelsToLinear(dbPerFrame)

\* the attack rate of a sub-block
AttackRate(b, maxAttackCompressionDiffDb) ==
    LET effAttenDiffDb == StdMax(500000, maxAttackCompressionDiffDb)
        x == FDiv(250000, effAttenDiffDb)
    IN  FSub(One, powf(x, FDiv(One \div Kilo, b.attackFrames)))

\* the attack branch: diffDb is compressionDiffDb with its gremlins fixed
AttackOf(b, scaledDesiredGain, diffDb, maxAttack) ==
    [m_maxAttackCompressionDiffDb |-> maxAttack,
     scaledDesiredGain |-> scaledDesiredGain,
     isReleasing |-> FALSE,
     compressionDiffDb |-> diffDb,
     envelopeRate |-> AttackRate(b, maxAttack)]

\* mutant: the attack rate follows the latest compressionDiffDb
AttackBranchLatest(b, scaledDesiredGain, diffDb, mMaxAttackCompressionDiffDb) ==
    AttackOf(b, scaledDesiredGain, diffDb, diffDb)

AttackBranch(b, scaledDesiredGain, diffDb, mMaxAttackCompressionDiffDb) ==
    AttackOf(b, scaledDesiredGain, diffDb,
             IF mMaxAttackCompressionDiffDb = -One
                \/ FLt(mMaxAttackCompressionDiffDb, diffDb)
             THEN diffDb
             ELSE mMaxAttackCompressionDiffDb)

ReleaseBranch(b, scaledDesiredGain, diffDb) ==
    [m_maxAttackCompressionDiffDb |-> -One,
     scaledDesiredGain |-> scaledDesiredGain,
     isReleasing |-> TRUE,
     compressionDiffDb |-> diffDb,
     envelopeRate |-> ReleaseRate(b, diffDb)]

EnvelopeOf(b, scaledDesiredGain, compressionDiffDb, mCompressorGain, maxAttack) ==
    IF FGt(scaledDesiredGain, mCompressorGain)
    THEN ReleaseBranch(b, scaledDesiredGain, FixGremlins(compressionDiffDb, -One))
    ELSE AttackBranch(b, scaledDesiredGain, FixGremlins(compressionDiffDb, One),
                      maxAttack)

EnvelopeFor(b, scaledDesiredGain, mCompressorGain, mMaxAttackCompressionDiffDb) ==
    EnvelopeOf(b, scaledDesiredGain,
               linearToDecibels(FDiv(mCompressorGain, scaledDesiredGain)),
               mCompressorGain, mMaxAttackCompressionDiffDb)

\* what a sub-block decides before its inner loop, from the members;
\* desiredGain is m_detectorAverage with its gremlins fixed
Envelope(b, desiredGain, mCompressorGain, mMaxAttackCompressionDiffDb) ==
    EnvelopeFor(b, FDiv(asinf(desiredGain), HalfPi), mCompressorGain,
                mMaxAttackCompressionDiffDb)

FAbs(v) == IF FGt(v, 0) THEN v ELSE FNeg(v)

PeakStep(compressorInput, absUndelayedSource) ==
    IF FLt(compressorInput, absUndelayedSource) THEN absUndelayedSource
    ELSE compressorInput

\* compressorInput after the channels below n of a frame
RECURSIVE PeakOver(_, _)
PeakOver(src, n) ==
    IF n = 0 THEN 0
    ELSE PeakStep(PeakOver(src, n - 1), FAbs(src[n - 1]))

\* mutant: a peak that is not finite counts as no signal
AttenuationOfFinite(c, compressorInput, k) ==
    IF ~IsFinite(compressorInput) \/ FLe(FAbs(compressorInput), 100) THEN One
    ELSE FDiv(saturate(c, FAbs(compressorInput), k), FAbs(compressorInput))

Attenuation(c, compressorInput, k) ==
    LET absInput == FAbs(compressorInput)
        shapedInput == saturate(c, absInput, k)
    IN  IF FLe(absInput, 100) THEN One ELSE FDiv(shapedInput, absInput)

SatReleaseRate(attenuation, satReleaseFrames) ==
    LET attenuationDb == StdMax(2 * One, FNeg(linearToDecibels(attenuation)))
        dbPerFrame == FDiv(FDiv(attenuationDb, satReleaseFrames), Kilo * One)
    IN  FSub(decibelsToLinear(dbPerFrame), One)

\* detectorAverage before its gremlins are fixed
RawDetector(average, attenuation, satReleaseRate) ==
    LET isRelease == FGt(attenuation, average)
        rate == IF isRelease THEN satReleaseRate ELSE One
    IN  StdMin(One, FAdd(average, FMul(FSub(attenuation, average), rate)))

\* mutant: the attack moves the gain away from the desired gain
GainUpdateAway(gain, scaledDesiredGain, envelopeRate) ==
    IF FLt(envelopeRate, One)
    THEN FAdd(gain, FMul(FSub(gain, scaledDesiredGain), envelopeRate))
    ELSE StdMin(One, FMul(gain, envelopeRate))

\* mutant: the gain is held while the meter reads below -30 dB
GainUpdateMetered(gain, scaledDesiredGain, envelopeRate) ==
    IF FLt(m_meteringGain, -30 * One) THEN gain
    ELSE IF FLt(envelopeRate, One)
    THEN FAdd(gain, FMul(FSub(scaledDesiredGain, gain), envelopeRate))
    ELSE StdMin(One, FMul(gain, envelopeRate))

GainUpdate(gain, scaledDesiredGain, envelopeRate) ==
    IF FLt(envelopeRate, One)
    THEN FAdd(gain, FMul(FSub(scaledDesiredGain, gain), envelopeRate))
    ELSE StdMin(One, FMul(gain, envelopeRate))

MeteringStep(mMeteringGain, dbRealGain, meteringReleaseK) ==
    IF FLt(dbRealGain, mMeteringGain) THEN dbRealGain
    ELSE FAdd(mMeteringGain,
              FMul(FSub(dbRealGain, mMeteringGain), meteringReleaseK))

Metering(mMeteringGain, postWarpCompressorGain, meteringReleaseK) ==
    MeteringStep(mMeteringGain, FMul(20 * One, log10f(postWarpCompressorGain)),
                 meteringReleaseK)

\* what an iteration of the inner loop computes from the peak of its frame
DetectorWith(compressorInput, attenuation) ==
    [compressorInput |-> compressorInput,
     attenuation |-> attenuation,
     raw |-> RawDetector(detectorAverage, attenuation,
                         SatReleaseRate(attenuation, blk.satReleaseFrames))]

DetectorOf(compressorInput) ==
    DetectorWith(compressorInput,
                 Attenuation(curve.c, compressorInput, blk.k))

\* process(), from its entry to the start of the loop over the sub-blocks: a
\* block of nf frames per channel carrying signal sig
ProcessBegin(nf, sig) ==
    /\ pc = "idle"
    /\ curve' = updateStaticCurveParameters(curve, param.threshold,
                                            param.knee, param.ratio)
    /\ blk' = BlockCoefficients(curve', param, sampleRate)
    /\ setPreDelayTime(6000)
    /\ buffer' = [ch \in Channels |-> [f \in 0..(nf - 1) |-> Signal(sig, ch, f)]]
    /\ framesToProcess' = nf
    /\ nDivisions' = nf \div nDivisionFrames
    /\ division' = 0
    /\ frameIndex' = 0
    /\ pc' = IF nf \div nDivisionFrames > 0 THEN "division" ELSE "idle"
    /\ last' = NoLast
    /\ op' = "process"
    /\ calls' = calls + 1
    /\ UNCHANGED <<sampleRate, param, m_meteringReleaseK, m_detectorAverage,
                   m_compressorGain, m_meteringGain,
                   m_maxAttackCompressionDiffDb, loopFrames, env,
                   preDelayReadIndex, preDelayWriteIndex, detectorAverage,
                   compressorGain>>

\* one pass of the loop over the sub-blocks, up to its inner loop
DivisionBegin ==
    /\ pc = "division"
    /\ m_detectorAverage' = FixGremlins(m_detectorAverage, One)
    /\ env' = Envelope(blk, m_detectorAverage', m_compressorGain,
                       m_maxAttackCompressionDiffDb)
    /\ m_maxAttackCompressionDiffDb' = env'.m_maxAttackCompressionDiffDb
    /\ detectorAverage' = m_detectorAverage'
    /\ preDelayReadIndex' = m_preDelayReadIndex
    /\ preDelayWriteIndex' = m_preDelayWriteIndex
    /\ compressorGain' = m_compressorGain
    /\ loopFrames' = nDivisionFrames
    /\ pc' = "loop"
    /\ UNCHANGED <<sampleRate, param, m_meteringReleaseK, m_lastPreDelayFrames,
                   m_preDelayReadIndex, m_preDelayWriteIndex, mPreDelayBuffer,
                   curve, m_compressorGain, m_meteringGain, buffer,
                   framesToProcess, nDivisions, division, frameIndex, blk,
                   last, op, calls, hist, change>>

\* mutant: a pass of the inner loop leaves the read index where it is
SampleEffectsReadStays(src, written, d, postWarpCompressorGain) ==
    /\ mPreDelayBuffer' = written
    /\ detectorAverage' = FixGremlins(d.raw, One)
    /\ m_meteringGain' = Metering(m_meteringGain, postWarpCompressorGain,
                                  m_meteringReleaseK)
    /\ last' = [undelayedSource |-> src,
                compressorInput |-> d.compressorInput,
                attenuation |-> d.attenuation,
                rawDetectorAverage |-> d.raw,
                delayed |-> [ch \in Channels |->
                                BufferAt(written[ch], preDelayReadIndex)],
                totalGain |-> FAdd(0, FMul(FMul(One, blk.masterLinearGain),
                                           postWarpCompressorGain)),
                frame |-> frameIndex]
    /\ buffer' = [ch \in Channels |->
                     [buffer[ch] EXCEPT ![frameIndex] =
                          FMul(last'.delayed[ch], last'.totalGain)]]
    /\ frameIndex' = frameIndex + 1
    /\ preDelayReadIndex' = preDelayReadIndex
    /\ preDelayWriteIndex' = MaskIndex(preDelayWriteIndex + 1)
    /\ loopFrames' = loopFrames - 1
    /\ hist' = Append(hist, src)
    /\ change' = [change EXCEPT !.frames = @ + 1]

\* the assignments of one pass of the inner loop: src is the frame of the
\* block, written the look-ahead buffer with that frame in it, d what the
\* detector computed
SampleEffects(src, written, d, postWarpCompressorGain) ==
    /\ mPreDelayBuffer' = written
    /\ detectorAverage' = FixGremlins(d.raw, One)
    /\ m_meteringGain' = Metering(m_meteringGain, postWarpCompressorGain,
                                  m_meteringReleaseK)
    /\ last' = [undelayedSource |-> src,
                compressorInput |-> d.compressorInput,
                attenuation |-> d.attenuation,
                rawDetectorAverage |-> d.raw,
                delayed |-> [ch \in Channels |->
                                BufferAt(written[ch], preDelayReadIndex)],
                totalGain |-> FAdd(0, FMul(FMul(One, blk.masterLinearGain),
                                           postWarpCompressorGain)),
                frame |-> frameIndex]
    /\ buffer' = [ch \in Channels |->
                     [buffer[ch] EXCEPT ![frameIndex] =
                          FMul(last'.delayed[ch], last'.totalGain)]]
    /\ frameIndex' = frameIndex + 1
    /\ preDelayReadIndex' = MaskIndex(preDelayReadIndex + 1)
    /\ preDelayWriteIndex' = MaskIndex(preDelayWriteIndex + 1)
    /\ loopFrames' = loopFrames - 1
    /\ hist' = Append(hist, src)
    /\ change' = [change EXCEPT !.frames = @ + 1]

\* mutant: every pass of the inner loop decides the mode and the rate anew
SampleRedecides ==
    /\ pc = "loop"
    /\ compressorGain' = GainUpdate(compressorGain, env.scaledDesiredGain,
                                    env.envelopeRate)
    /\ SampleEffects([ch \in Channels |-> buffer[ch][frameIndex]],
                     [ch \in Channels |->
                         BufferPut(mPreDelayBuffer[ch], preDelayWriteIndex,
                                   buffer[ch][frameIndex])],
                     DetectorOf(PeakOver([ch \in Channels |->
                                             buffer[ch][frameIndex]],
                                         NumChannels)),
                     sinf(FMul(HalfPi, compressorGain')))
    /\ env' = Envelope(blk, detectorAverage', compressorGain',
                       m_maxAttackCompressionDiffDb)
    /\ IF loopFrames = 1
       THEN /\ m_preDelayReadIndex' = preDelayReadIndex'
            /\ m_preDelayWriteIndex' = preDelayWriteIndex'
            /\ m_detectorAverage' = detectorAverage'
            /\ m_compressorGain' = compressorGain'
            /\ division' = division + 1
            /\ pc' = IF division + 1 < nDivisions THEN "division" ELSE "idle"
       ELSE UNCHANGED <<m_preDelayReadIndex, m_preDelayWriteIndex,
                        m_detectorAverage, m_compressorGain, division, pc>>
    /\ UNCHANGED <<sampleRate, param, m_meteringReleaseK, m_lastPreDelayFrames,
                   curve, m_maxAttackCompressionDiffDb, framesToProcess,
                   nDivisions, blk, op, calls>>

\* one pass of the inner loop; the last one of a sub-block also copies the
\* locals back to the members and ends the pass of the outer loop
Sample ==
    /\ pc = "loop"
    /\ compressorGain' = GainUpdate(compressorGain, env.scaledDesiredGain,
                                    env.envelopeRate)
    /\ SampleEffects([ch \in Channels |-> buffer[ch][frameIndex]],
                     [ch \in Channels |->
                         BufferPut(mPreDelayBuffer[ch], preDelayWriteIndex,
                                   buffer[ch][frameIndex])],
                     DetectorOf(PeakOver([ch \in Channels |->
                                             buffer[ch][frameIndex]],
                                         NumChannels)),
                     sinf(FMul(HalfPi, compressorGain')))
    /\ IF loopFrames = 1
       THEN /\ m_preDelayReadIndex' = preDelayReadIndex'
            /\ m_preDelayWriteIndex' = preDelayWriteIndex'
            /\ m_detectorAverage' = detectorAverage'
            /\ m_compressorGain' = compressorGain'
            /\ division' = division + 1
            /\ pc' = IF division + 1 < nDivisions THEN "division" ELSE "idle"
       ELSE UNCHANGED <<m_preDelayReadIndex, m_preDelayWriteIndex,
                        m_detectorAverage, m_compressorGain, division, pc>>
    /\ UNCHANGED <<sampleRate, param, m_meteringReleaseK, m_lastPreDelayFrames,
                   curve, m_maxAttackCompressionDiffDb, framesToProcess,
                   nDivisions, blk, env, op, calls>>

\* the calls of a run are counted, and bounded
More == calls < MaxCalls

\* what a run of the node alone leaves unchanged
otherVars == <<meterVars, watchVars>>

Next ==
    \/ \E sr \in SampleRates : More /\ Initialize(sr) /\ UNCHANGED otherVars
    \/ More /\ Reset /\ UNCHANGED otherVars
    \/ \E t \in PreDelayTimes : More /\ SetPreDelayTime(t) /\ UNCHANGED otherVars
    \/ \E p \in ParamChoices : More /\ SetParam(p) /\ UNCHANGED otherVars
    \/ \E b \in Blocks : More /\ ProcessBegin(b[1], b[2]) /\ UNCHANGED otherVars
    \/ DivisionBegin /\ UNCHANGED otherVars
    \/ Sample /\ UNCHANGED otherVars

Spec == Init /\ [][Next]_vars

\* Runs that change the delay, reset and process long blocks, at 192 kHz
MaxDelayCalls == 5
DelayFrames == 288

InitDelay == Init /\ sampleRate = 192 * One

MoreDelay == calls < MaxDelayCalls

NextDelay ==
    \/ MoreDelay /\ Reset /\ UNCHANGED otherVars
    \/ MoreDelay /\ SetPreDelayTime(3000) /\ UNCHANGED otherVars
    \/ MoreDelay /\ ProcessBegin(DelayFrames, "tone") /\ UNCHANGED otherVars
    \/ DivisionBegin /\ UNCHANGED otherVars
    \/ Sample /\ UNCHANGED otherVars

SpecDelay == InitDelay /\ [][NextDelay]_vars

\* Runs that feed a quiet, constant signal for more than a second, at 2 kHz
MaxSteadyCalls == 9
SteadyFrames == 224

InitSteady == Init /\ sampleRate = 2 * One

MoreSteady == calls < MaxSteadyCalls

NextSteady ==
    \/ MoreSteady /\ ProcessBegin(SteadyFrames, "quiet") /\ UNCHANGED otherVars
    \/ DivisionBegin /\ UNCHANGED otherVars
    \/ Sample /\ UNCHANGED otherVars

SpecSteady == InitSteady /\ [][NextSteady]_vars

\* Two runs of the node, one after the other, that get the same calls and
\* start from states that differ in m_meteringGain only
MaxMeterCalls == 2

MeterBlocks == {<<32, "loud">>, <<32, "quiet">>, <<64, "tone">>}

\* everything a run shows of the signal path: the block in the caller's
\* buffer, the detector, the gain, the look-ahead buffer and its indices
Visible ==
    [buffer |-> buffer,
     m_detectorAverage |-> m_detectorAverage,
     m_compressorGain |-> m_compressorGain,
     m_maxAttackCompressionDiffDb |-> m_maxAttackCompressionDiffDb,
     mPreDelayBuffer |-> mPreDelayBuffer,
     indices |-> <<m_preDelayReadIndex, m_preDelayWriteIndex,
                   m_lastPreDelayFrames, preDelayReadIndex, preDelayWriteIndex>>,
     locals |-> <<detectorAverage, compressorGain, env, last, pc, frameIndex>>]

Shown == [visible |-> Visible, m_meteringGain |-> m_meteringGain]

\* the state the first run starts from: the initialized node with another
\* value of m_meteringGain
MeterPerturb(v) ==
    /\ phase = 0
    /\ m_meteringGain' = v
    /\ phase' = 1
    /\ UNCHANGED <<sampleRate, param, m_meteringReleaseK, m_lastPreDelayFrames,
                   m_preDelayReadIndex, m_preDelayWriteIndex, mPreDelayBuffer,
                   curve, m_detectorAverage, m_compressorGain,
                   m_maxAttackCompressionDiffDb, callVars, runVars, script,
                   recorded, pos>>

\* a step of the first run is recorded
MeterRecord ==
    /\ phase = 1
    /\ recorded' = Append(recorded, Shown')
    /\ UNCHANGED <<phase, pos>>

MeterFirstReset ==
    /\ calls < MaxMeterCalls
    /\ Reset
    /\ script' = Append(script, <<"reset", 0, "">>)
    /\ MeterRecord

MeterFirstProcess(nf, sig) ==
    /\ calls < MaxMeterCalls
    /\ ProcessBegin(nf, sig)
    /\ script' = Append(script, <<"process", nf, sig>>)
    /\ MeterRecord

\* the second run starts: a node constructed and initialized like the first
MeterSecondRun ==
    /\ phase = 1
    /\ pc = "idle"
    /\ calls = MaxMeterCalls
    /\ m_lastPreDelayFrames' = DefaultPreDelayFrames
    /\ curve' = [c |-> UninitializedCurve, solves |-> 0, updates |-> 0]
    /\ reset
    /\ buffer' = [ch \in Channels |-> <<>>]
    /\ framesToProcess' = 0
    /\ nDivisions' = 0
    /\ division' = 0
    /\ frameIndex' = 0
    /\ loopFrames' = 0
    /\ blk' = NoBlk
    /\ env' = NoEnv
    /\ preDelayReadIndex' = 0
    /\ preDelayWriteIndex' = 0
    /\ detectorAverage' = 0
    /\ compressorGain' = 0
    /\ last' = NoLast
    /\ change' = NoChange
    /\ op' = "initialize"
    /\ calls' = 0
    /\ phase' = 2
    /\ pos' = 0
    /\ UNCHANGED <<sampleRate, param, m_meteringReleaseK, pc, script, recorded>>

\* a step of the second run
MeterReplay ==
    /\ phase = 2
    /\ pos' = pos + 1
    /\ UNCHANGED <<phase, script, recorded>>

MeterSecondReset ==
    /\ calls < Len(script)
    /\ script[calls + 1][1] = "reset"
    /\ Reset
    /\ MeterReplay

MeterSecondProcess ==
    /\ calls < Len(script)
    /\ script[calls + 1][1] = "process"
    /\ ProcessBegin(script[calls + 1][2], script[calls + 1][3])
    /\ MeterReplay

NextMeter ==
    \/ \E v \in {-40 * One} : MeterPerturb(v) /\ UNCHANGED watchVars
    \/ MeterFirstReset /\ UNCHANGED watchVars
    \/ \E b \in MeterBlocks : MeterFirstProcess(b[1], b[2]) /\ UNCHANGED watchVars
    \/ DivisionBegin /\ MeterRecord /\ UNCHANGED <<script, watchVars>>
    \/ Sample /\ MeterRecord /\ UNCHANGED <<script, watchVars>>
    \/ MeterSecondRun /\ UNCHANGED watchVars
    \/ MeterSecondReset /\ UNCHANGED watchVars
    \/ MeterSecondProcess /\ UNCHANGED watchVars
    \/ DivisionBegin /\ MeterReplay /\ UNCHANGED watchVars
    \/ Sample /\ MeterReplay /\ UNCHANGED watchVars

SpecMeter == Init /\ [][NextMeter]_<<vars, meterVars>>

\* ---------------------------------------------------- file watcher, actions

\* calls of load(), watch() and unwatch() in one run
MaxWatchCalls == 3
\* writes and deletions of files and disconnections of callbacks in one run
MaxEnvSteps == 2
\* filesystem errors in one run
MaxFsErrors == 1
MaxFileTime == 2

\* what load() and watch() are called with: one path, or a vector of paths
WatchRequests ==
    {[many |-> FALSE, paths |-> <<"/a">>],
     [many |-> FALSE, paths |-> <<"c">>],
     [many |-> FALSE, paths |-> <<"">>],
     [many |-> FALSE, paths |-> <<"/missing">>],
     [many |-> TRUE, paths |-> <<>>],
     [many |-> TRUE, paths |-> <<"/a", "b">>],
     [many |-> TRUE, paths |-> <<"/a", "c">>]}

\* mutant: the constructor passes over a path that does not resolve
FullPathsOfFound(paths) == SelectSeq([i \in DOMAIN paths |-> findFullFilePath(paths[i], onDisk)], LAMBDA fp : fp # Thrown)

\* the full paths of a request, Thrown where findFullFilePath throws
FullPathsOf(paths) == [i \in DOMAIN paths |-> findFullFilePath(paths[i], onDisk)]

\* WatchSingle::WatchSingle, WatchMany::WatchMany: the watch, with no slot
\* connected yet. seen is what the file times were when the watch was made or
\* when its callback was last emitted for a file.
NewWatch(id, many, fullPaths) ==
    [id |-> id, many |-> many,
     mFilePaths |-> fullPaths,
     mTimeStamps |-> [i \in DOMAIN fullPaths |-> fileTime[fullPaths[i]]],
     slots |-> 0, mDiscarded |-> FALSE,
     seen |-> fileTime]

markDiscarded(w) == [w EXCEPT !.mDiscarded = TRUE]

Emission(w, by, modified) == [id |-> w.id, by |-> by, modified |-> modified]

\* a watch after a modified file was found at index i, and the emission
FileChanged(w, i, fp) ==
    [w |-> [w EXCEPT !.mTimeStamps[i] = fileTime[fp], !.seen[fp] = fileTime[fp]],
     emits |-> <<Emission(w, "update", w.seen[fp] < fileTime[fp])>>]

WatchSingleCheckCurrent(w) ==
    IF w.mFilePaths[1] \notin onDisk THEN [w |-> w, emits |-> <<>>]
    ELSE IF w.slots = 0 THEN [w |-> markDiscarded(w), emits |-> <<>>]
    ELSE IF w.mTimeStamps[1] < fileTime[w.mFilePaths[1]]
    THEN FileChanged(w, 1, w.mFilePaths[1])
    ELSE [w |-> w, emits |-> <<>>]

\* the loop of WatchMany::checkCurrent from index i on
RECURSIVE WatchManyCheckFrom(_, _)
WatchManyCheckFrom(r, i) ==
    IF i > Len(r.w.mFilePaths) THEN r
    ELSE IF r.w.mFilePaths[i] \in onDisk
               /\ r.w.mTimeStamps[i] < fileTime[r.w.mFilePaths[i]]
    THEN WatchManyCheckFrom(
             [w |-> FileChanged(r.w, i, r.w.mFilePaths[i]).w,
              emits |-> r.emits \o FileChanged(r.w, i, r.w.mFilePaths[i]).emits],
             i + 1)
    ELSE WatchManyCheckFrom(r, i + 1)

WatchManyCheckCurrent(w) ==
    IF w.slots = 0 THEN [w |-> markDiscarded(w), emits |-> <<>>]
    ELSE WatchManyCheckFrom([w |-> w, emits |-> <<>>], 1)

checkCurrent(w) ==
    IF w.many THEN WatchManyCheckCurrent(w) ELSE WatchSingleCheckCurrent(w)

WatchSingleUnwatch(w, filePath) ==
    IF w.mFilePaths[1] = filePath THEN markDiscarded(w) ELSE w

\* mFilePaths without filePath
RECURSIVE Remove(_, _)
Remove(paths, filePath) ==
    IF paths = <<>> THEN <<>>
    ELSE IF Head(paths) = filePath THEN Remove(Tail(paths), filePath)
    ELSE <<Head(paths)>> \o Remove(Tail(paths), filePath)

\* mutant: a watch without files stays
WatchManyUnwatchKeeps(w, filePath) == [w EXCEPT !.mFilePaths = Remove(@, filePath)]

\* mTimeStamps keeps its entries
WatchManyUnwatch(w, filePath) ==
    IF Remove(w.mFilePaths, filePath) = <<>>
    THEN markDiscarded([w EXCEPT !.mFilePaths = <<>>])
    ELSE [w EXCEPT !.mFilePaths = Remove(@, filePath)]

unwatch(w, filePath) ==
    IF w.many THEN WatchManyUnwatch(w, filePath)
    ELSE WatchSingleUnwatch(w, filePath)

\* the ids of the watches of the list that are marked discarded
DiscardedIds(list) == {list[i].id : i \in {j \in DOMAIN list : list[j].mDiscarded}}

\* mWatchList.erase( it )
Erase(list, i) == [j \in 1..(Len(list) - 1) |-> IF j < i THEN list[j] ELSE list[j + 1]]

\* load() or watch() is called on the worker thread: it constructs its watch
\* and takes the mutex, for which it waits while update() holds it. Where
\* findFullFilePath throws, the call ends in the constructor.
WorkerCall(kind, req) ==
    /\ wpc = "idle"
    /\ fwCalls < MaxWatchCalls
    /\ fwCalls' = fwCalls + 1
    /\ IF \E i \in DOMAIN FullPathsOf(req.paths) :
              FullPathsOf(req.paths)[i] = Thrown
       THEN /\ fwOp' = [op |-> kind, thrown |-> TRUE, path |-> "",
                         paths |-> req.paths]
            /\ UNCHANGED <<wpc, wcall, nextId, mMutex>>
       ELSE /\ mMutex = "none"
            /\ mMutex' = "worker"
            /\ fwOp' = [op |-> kind, thrown |-> FALSE, path |-> "",
                         paths |-> req.paths]
            /\ wcall' = [kind |-> kind,
                         watch |-> NewWatch(nextId, req.many,
                                            FullPathsOf(req.paths))]
            /\ wpc' = "locked"
            /\ nextId' = nextId + 1
    /\ UNCHANGED <<mWatchList, fileTime, onDisk, upc, it, emitted, lastUpdate,
                   pending, left, checkedDiscarded, envSteps, fsErrors>>

\* push_back and connect, the emitCallback() of load(), and the return, which
\* releases the mutex
WorkerPush ==
    /\ wpc = "locked"
    /\ mWatchList' = Append(mWatchList, [wcall.watch EXCEPT !.slots = 1])
    /\ emitted' = IF wcall.kind = "load"
                  THEN Append(emitted, Emission(wcall.watch, "load", FALSE))
                  ELSE emitted
    /\ mMutex' = "none"
    /\ wpc' = "idle"
    /\ wcall' = NoCall
    /\ UNCHANGED <<fileTime, onDisk, upc, it, lastUpdate, pending, left,
                   checkedDiscarded, fwOp, fwCalls, envSteps, fsErrors, nextId>>

\* FileWatcher::unwatch( filePath ), on the main thread between two updates
Unwatch(filePath) ==
    /\ upc = "idle"
    /\ wpc = "idle"
    /\ fwCalls < MaxWatchCalls
    /\ fwCalls' = fwCalls + 1
    /\ fwOp' = [op |-> "unwatch", thrown |-> FALSE, path |-> filePath,
                paths |-> <<>>]
    /\ mWatchList' = [i \in DOMAIN mWatchList |-> unwatch(mWatchList[i], filePath)]
    /\ UNCHANGED <<mMutex, fileTime, onDisk, wpc, wcall, upc, it, emitted,
                   lastUpdate, pending, left, checkedDiscarded, envSteps,
                   fsErrors, nextId>>

\* mutant: update() waits for the mutex like load() does, and so goes on as
\* soon as it can, here without it
UpdateBeginAnyway ==
    /\ upc = "idle"
    /\ mMutex' = "update"
    /\ upc' = "loop"
    /\ it' = 1
    /\ pending' = DiscardedIds(mWatchList)
    /\ lastUpdate' = "running"
    /\ UNCHANGED <<mWatchList, fileTime, onDisk, wpc, wcall, emitted, left,
                   checkedDiscarded, fwOp, fwCalls, envSteps, fsErrors, nextId>>

\* update() is called and tries to lock
UpdateBegin ==
    /\ upc = "idle"
    /\ pending' = DiscardedIds(mWatchList)
    /\ IF mMutex # "none"
       THEN /\ lastUpdate' = "skipped"
            /\ left' = DiscardedIds(mWatchList)
            /\ UNCHANGED <<mMutex, upc, it>>
       ELSE /\ mMutex' = "update"
            /\ upc' = "loop"
            /\ it' = 1
            /\ lastUpdate' = "running"
            /\ UNCHANGED left
    /\ UNCHANGED <<mWatchList, fileTime, onDisk, wpc, wcall, emitted,
                   checkedDiscarded, fwOp, fwCalls, envSteps, fsErrors, nextId>>

\* update() returns
UpdateEnd(how) ==
    /\ mMutex' = "none"
    /\ upc' = "idle"
    /\ lastUpdate' = how
    /\ left' = pending \cap DiscardedIds(mWatchList)
    /\ it' = 1
    /\ UNCHANGED <<mWatchList, emitted, pending, checkedDiscarded, fsErrors>>

\* watch->checkCurrent() and ++it
UpdateCheck ==
    /\ mWatchList' = [mWatchList EXCEPT ![it] = checkCurrent(@).w]
    /\ emitted' = emitted \o checkCurrent(mWatchList[it]).emits
    /\ checkedDiscarded' = (checkedDiscarded \/ mWatchList[it].mDiscarded)
    /\ it' = it + 1
    /\ UNCHANGED <<mMutex, upc, lastUpdate, pending, left, fsErrors>>

\* mutant: the loop does not look at isDiscarded()
UpdateLoopKeeps ==
    /\ upc = "loop"
    /\ IF it > Len(mWatchList) THEN UpdateEnd("ran") ELSE UpdateCheck
    /\ UNCHANGED <<fileTime, onDisk, wpc, wcall, fwOp, fwCalls,
                   envSteps, nextId>>

\* one pass of the loop of update(), or its end
UpdateLoop ==
    /\ upc = "loop"
    /\ IF it > Len(mWatchList) THEN UpdateEnd("ran")
       ELSE IF mWatchList[it].mDiscarded
       THEN /\ mWatchList' = Erase(mWatchList, it)
            /\ UNCHANGED <<mMutex, upc, it, emitted, lastUpdate, pending,
                           left, checkedDiscarded, fsErrors>>
       ELSE UpdateCheck
    /\ UNCHANGED <<fileTime, onDisk, wpc, wcall, fwOp, fwCalls,
                   envSteps, nextId>>

\* checkCurrent() throws fs::filesystem_error for a file the system has
\* locked, and update() gives up for this frame
UpdateCatch ==
    /\ upc = "loop"
    /\ it <= Len(mWatchList)
    /\ ~mWatchList[it].mDiscarded
    /\ \E i \in DOMAIN mWatchList[it].mFilePaths :
           mWatchList[it].mFilePaths[i] \in onDisk
    /\ fsErrors < MaxFsErrors
    /\ mMutex' = "none"
    /\ upc' = "idle"
    /\ lastUpdate' = "threw"
    /\ left' = pending \cap DiscardedIds(mWatchList)
    /\ it' = 1
    /\ fsErrors' = fsErrors + 1
    /\ UNCHANGED <<mWatchList, fileTime, onDisk, wpc, wcall, emitted,
                   pending, checkedDiscarded, fwOp, fwCalls, envSteps, nextId>>

\* a file is written, between two calls
Touch(f) ==
    /\ envSteps < MaxEnvSteps /\ upc = "idle" /\ wpc = "idle"
    /\ f \in onDisk
    /\ fileTime[f] < MaxFileTime
    /\ fileTime' = [fileTime EXCEPT ![f] = @ + 1]
    /\ envSteps' = envSteps + 1
    /\ UNCHANGED <<mWatchList, mMutex, onDisk, wpc, wcall, upc, it, emitted,
                   lastUpdate, pending, left, checkedDiscarded, fwOp, fwCalls,
                   fsErrors, nextId>>

\* a file is deleted
Delete(f) ==
    /\ envSteps < MaxEnvSteps /\ upc = "idle" /\ wpc = "idle"
    /\ f \in onDisk
    /\ onDisk' = onDisk \ {f}
    /\ envSteps' = envSteps + 1
    /\ UNCHANGED <<mWatchList, mMutex, fileTime, wpc, wcall, upc, it, emitted,
                   lastUpdate, pending, left, checkedDiscarded, fwOp, fwCalls,
                   fsErrors, nextId>>

\* the caller disconnects the Connection load() or watch() returned
Disconnect(i) ==
    /\ envSteps < MaxEnvSteps /\ upc = "idle" /\ wpc = "idle"
    /\ mWatchList[i].slots > 0
    /\ mWatchList' = [mWatchList EXCEPT ![i].slots = 0]
    /\ envSteps' = envSteps + 1
    /\ UNCHANGED <<mMutex, fileTime, onDisk, wpc, wcall, upc, it, emitted,
                   lastUpdate, pending, left, checkedDiscarded, fwOp, fwCalls,
                   fsErrors, nextId>>

NextWatch ==
    \/ \E kind \in {"load", "watch"}, req \in WatchRequests :
           WorkerCall(kind, req) /\ UNCHANGED <<vars, meterVars>>
    \/ WorkerPush /\ UNCHANGED <<vars, meterVars>>
    \/ \E filePath \in FullPaths : Unwatch(filePath) /\ UNCHANGED <<vars, meterVars>>
    \/ UpdateBegin /\ UNCHANGED <<vars, meterVars>>
    \/ UpdateLoop /\ UNCHANGED <<vars, meterVars>>
    \/ UpdateCatch /\ UNCHANGED <<vars, meterVars>>
    \/ \E f \in FullPaths : Touch(f) /\ UNCHANGED <<vars, meterVars>>
    \/ \E f \in FullPaths : Delete(f) /\ UNCHANGED <<vars, meterVars>>
    \/ \E i \in DOMAIN mWatchList : Disconnect(i) /\ UNCHANGED <<vars, meterVars>>

InitWatch == Init /\ sampleRate = 2 * One

SpecWatch == InitWatch /\ [][NextWatch]_watchVars

\* ------------------------------------------------------------------ claims

\* C1: in every reachable state the look-ahead write index equals
\* (read index + m_lastPreDelayFrames) mod MaxPreDelayFrames, for the members
\* and, inside the inner loop, for the locals that stand for them.
C1_WriteIsReadPlusDelay ==
    /\ m_preDelayWriteIndex =
           (m_preDelayReadIndex + m_lastPreDelayFrames) % MaxPreDelayFrames
    /\ pc = "loop" =>
           preDelayWriteIndex =
               (preDelayReadIndex + m_lastPreDelayFrames) % MaxPreDelayFrames

\* C2: when process() returns, every frame of the block has been handled:
\* its input written to the look-ahead buffer and its output replaced.
C2_EveryFrameProcessed ==
    (op = "process" /\ pc = "idle") => frameIndex = framesToProcess

\* C3: while the delay does not change, the value read for a channel at a
\* processed frame is the sample written m_lastPreDelayFrames frames earlier
\* (the frame's own sample when the delay is 0), and zero while fewer frames
\* than that have been written since the buffer was zeroed.
C3_RoundTrip ==
    (op = "process" /\ last.frame >= 0) =>
        \A ch \in Channels :
            last.delayed[ch] =
                IF Len(hist) - 1 >= m_lastPreDelayFrames
                THEN hist[Len(hist) - m_lastPreDelayFrames][ch]
                ELSE 0

\* C4 (as stated): the configured delay is at most MaxPreDelayFrames - 2.
C4_DelayAtMostCapacityMinusTwo ==
    m_lastPreDelayFrames \in 0..(MaxPreDelayFrames - 2)

\* C4 (amended): setPreDelayTime clamps the frame count to
\* [0, MaxPreDelayFrames - 1], so the configured delay is at most
\* MaxPreDelayFrames - 1 in every reachable state.
C4_DelayAtMostCapacityMinusOne ==
    m_lastPreDelayFrames \in 0..(MaxPreDelayFrames - 1)

\* process() asked for more frames of delay than the buffer allows, and
\* the clamp cut the request down
C4_Witness ==
    /\ op = "process"
    /\ FMul(6000, sampleRate) \div Kilo > MaxPreDelayFrames - 1
    /\ m_lastPreDelayFrames = MaxPreDelayFrames - 1

\* C5: the look-ahead read and write indices, members and locals, are
\* always in [0, MaxPreDelayFrames).
C5_IndicesInRange ==
    /\ m_preDelayReadIndex \in 0..(MaxPreDelayFrames - 1)
    /\ m_preDelayWriteIndex \in 0..(MaxPreDelayFrames - 1)
    /\ pc = "loop" =>
           /\ preDelayReadIndex \in 0..(MaxPreDelayFrames - 1)
           /\ preDelayWriteIndex \in 0..(MaxPreDelayFrames - 1)

\* the inner loop advanced the write index from MaxPreDelayFrames - 1 to 0
C5_Witness ==
    /\ pc = "loop"
    /\ last.frame >= 0
    /\ m_preDelayWriteIndex = MaxPreDelayFrames - 1
    /\ preDelayWriteIndex = last.frame

\* C6: a block recomputes the cached curve, running the solve once, exactly
\* when its (dbThreshold, dbKnee, ratio) differs from the cached triple; when
\* the triple is equal it changes no cached member and uses the cached k; and
\* no step inside process() after its entry, and no other call, runs the solve.
C6_RecomputeOnlyOnChange ==
    [][/\ (pc = "idle" /\ op' = "process" /\ calls' = calls + 1) =>
              IF <<param.threshold, param.knee, param.ratio>>
                     # <<curve.c.m_dbThreshold, curve.c.m_dbKnee, curve.c.m_ratio>>
              THEN /\ curve'.solves = curve.solves + 1
                   /\ <<curve'.c.m_dbThreshold, curve'.c.m_dbKnee,
                        curve'.c.m_ratio>> = <<param.threshold, param.knee, param.ratio>>
                   /\ blk'.k = curve'.c.m_K
              ELSE /\ curve'.solves = curve.solves
                   /\ curve'.c = curve.c
                   /\ blk'.k = curve.c.m_K
       /\ ~(pc = "idle" /\ op' = "process" /\ calls' = calls + 1) =>
              curve'.solves = curve.solves]_vars

\* a second block with the parameters of the first reused the cached curve
C6_Witness ==
    /\ op = "process"
    /\ curve.updates = 2
    /\ curve.solves = 1

\* C7: reset() zeroes the look-ahead buffer and puts the detector and the
\* gain envelope back to their initial values, and leaves the five
\* parameters and every cached member of the curve as they were.
C7_ResetKeepsParametersAndCurve ==
    [][(op' = "reset" /\ calls' = calls + 1) =>
           /\ param' = param
           /\ curve' = curve
           /\ Silent(mPreDelayBuffer')
           /\ m_detectorAverage' = 0
           /\ m_compressorGain' = One
           /\ m_maxAttackCompressionDiffDb' = -One]_vars

\* reset() acted after a block had solved the curve and set the delay, and
\* the curve is still there
C7_Witness ==
    /\ op = "reset"
    /\ curve.solves = 1
    /\ curve.c.m_K > 0
    /\ m_lastPreDelayFrames # DefaultPreDelayFrames
    /\ Silent(mPreDelayBuffer)

UnitRange(v) == IsFinite(v) /\ 0 <= v /\ v <= One

\* C8: detectorAverage and compressorGain, members and locals, are within
\* [0, 1] in the initial state, after reset() and after every processed sample
\* (for every input of the model, the finite ones included).
C8_DetectorAndGainInUnitRange ==
    /\ UnitRange(m_detectorAverage)
    /\ UnitRange(m_compressorGain)
    /\ pc = "loop" => UnitRange(detectorAverage) /\ UnitRange(compressorGain)

\* a loud block has pulled the detector and the gain below 1
C8_Witness ==
    /\ pc = "idle"
    /\ op = "process"
    /\ \A ch \in Channels : IsFinite(last.undelayedSource[ch])
    /\ 0 < m_detectorAverage /\ m_detectorAverage < One \div 2
    /\ 0 < m_compressorGain /\ m_compressorGain < One

\* C9 (as stated): after a frame with a NaN or infinite input sample,
\* detectorAverage is 1.0 at the end of that frame's iteration.
C9_NonFiniteInputResetsDetector ==
    (pc = "loop" /\ last.frame >= 0
         /\ \E ch \in Channels : ~IsFinite(last.undelayedSource[ch])) =>
        detectorAverage = One

\* C9 (amended): at the end of every iteration of the inner loop
\* detectorAverage and compressorGain are finite; detectorAverage is 1.0 when
\* the frame's peak was infinite or the detector update gave NaN or an
\* infinity; a NaN input sample is skipped by the peak comparison.
C9_NoNonFiniteSurvives ==
    (op = "process" /\ last.frame >= 0) =>
        /\ IsFinite(m_detectorAverage) /\ IsFinite(m_compressorGain)
        /\ pc = "loop" =>
               /\ IsFinite(detectorAverage) /\ IsFinite(compressorGain)
               /\ (isinf(last.compressorInput) \/ ~IsFinite(last.rawDetectorAverage))
                      => detectorAverage = One
               /\ ~isnan(last.compressorInput)

\* a frame with an infinite sample was processed
C9_Witness ==
    /\ pc = "loop"
    /\ last.frame >= 0
    /\ isinf(last.compressorInput)
    /\ isnan(last.attenuation)

\* C10: once a delay change has taken effect while the buffer held a non-zero
\* sample, the next m_lastPreDelayFrames processed output samples of every
\* channel are zero.
C10_SilenceAfterDelayChange ==
    (op = "process" /\ last.frame >= 0 /\ change.active /\ change.nonSilent
        /\ change.frames <= m_lastPreDelayFrames) =>
        \A ch \in Channels : buffer[ch][last.frame] = 0

\* inputs and curve steepnesses (in thousands) saturate() is applied to
SaturateInputs == {0, 1, 100, 101, 1000, 30000, 63095, 63096, 100000, 251188,
                   251189, 500000, One, 4 * One}
SaturateKs == {100, 5 * Kilo, 100 * Kilo, 10 * One}
\* thresholds and knees, in dB, of the curves saturate() is applied with
SaturateThresholds == {-60 * One, -24 * One, -12 * One, 0}
SaturateKnees == {0, 6 * One, 30 * One, 40 * One}

\* the cached members saturate() reads, for a threshold and a knee
CurveWith(c, dbThreshold, dbKnee) ==
    KneeOf(CurveBeforeSolve(c, dbThreshold, dbKnee, c.m_ratio),
           FAdd(dbThreshold, dbKnee))

SaturateIsIdentityBelow(c, ks) ==
    \A x \in SaturateInputs, k \in ks :
        FLt(x, c.m_linearThreshold) => saturate(c, x, k) = x

\* C13: with the curve of any block and any k of the solve's range, saturate()
\* returns every x below the linear threshold unchanged, and the attenuation
\* the inner loop computes for a finite peak below the threshold is exactly 1.
C13_SaturateIsIdentityBelowThreshold ==
    (curve.solves > 0) =>
        /\ SaturateIsIdentityBelow(curve.c, SaturateKs \cup {curve.c.m_K})
        /\ (pc = "idle" /\ op = "process") =>
               \A th \in SaturateThresholds, knee \in SaturateKnees :
                   SaturateIsIdentityBelow(CurveWith(curve.c, th, knee),
                                           SaturateKs)
        /\ (pc = "loop" /\ last.frame >= 0 /\ IsFinite(last.compressorInput)
                /\ FLt(last.compressorInput, curve.c.m_linearThreshold))
               => last.attenuation = One

\* a frame whose peak is between 0.0001 and the linear threshold was shaped
C13_Witness ==
    /\ pc = "loop"
    /\ last.frame >= 0
    /\ FGt(last.compressorInput, 100)
    /\ FLt(last.compressorInput, curve.c.m_linearThreshold)
    /\ saturate(curve.c, last.compressorInput, blk.k) = last.compressorInput
    /\ last.attenuation = One

\* the frame counts setPreDelayTime can compute in the current state
DelayCounts ==
    UNION {{ClampPreDelayFrames(n) : n \in PreDelayFramesOf(t, sampleRate)} :
               t \in PreDelayTimes \cup {6000, 3000}}

\* C17: a call of setPreDelayTime, from outside or at the entry of process(),
\* that computes a frame count different from the stored delay stores it,
\* zeroes the whole look-ahead buffer and sets the read index to 0 and the
\* write index to the new count; a call that computes the stored delay leaves
\* the buffer, both indices and the stored delay as they were.
C17_DelayChangeResetsBuffer ==
    [][(calls' = calls + 1 /\ op' \in {"setPreDelayTime", "process"}) =>
           /\ m_lastPreDelayFrames' \in DelayCounts
           /\ IF m_lastPreDelayFrames' # m_lastPreDelayFrames
              THEN /\ Silent(mPreDelayBuffer')
                   /\ m_preDelayReadIndex' = 0
                   /\ m_preDelayWriteIndex' = m_lastPreDelayFrames'
              ELSE /\ mPreDelayBuffer' = mPreDelayBuffer
                   /\ m_preDelayReadIndex' = m_preDelayReadIndex
                   /\ m_preDelayWriteIndex' = m_preDelayWriteIndex]_vars

\* setPreDelayTime changed the delay when the buffer held samples and the
\* read index had advanced
C17_Witness ==
    /\ op = "setPreDelayTime"
    /\ change.active /\ change.nonSilent /\ change.frames = 0
    /\ Silent(mPreDelayBuffer)
    /\ m_preDelayReadIndex = 0
    /\ m_preDelayWriteIndex = m_lastPreDelayFrames
    /\ m_lastPreDelayFrames # DefaultPreDelayFrames
    /\ frameIndex > 0

\* C18: a sub-block that takes the release branch sets
\* m_maxAttackCompressionDiffDb to -1; a sub-block that takes the attack
\* branch leaves it at least as large as it was and at least as large as the
\* sub-block's compressionDiffDb, and equal to that compressionDiffDb when it
\* was -1 (the first sub-block of an attack run).
C18_MaxAttackIsStickyMaximum ==
    [][(pc = "division" /\ pc' = "loop") =>
           /\ m_maxAttackCompressionDiffDb' = env'.m_maxAttackCompressionDiffDb
           /\ IF env'.isReleasing
              THEN m_maxAttackCompressionDiffDb' = -One
              ELSE /\ FLe(env'.compressionDiffDb, m_maxAttackCompressionDiffDb')
                   /\ FLe(m_maxAttackCompressionDiffDb,
                          m_maxAttackCompressionDiffDb')
                   /\ m_maxAttackCompressionDiffDb = -One =>
                          m_maxAttackCompressionDiffDb' = env'.compressionDiffDb
                   /\ m_maxAttackCompressionDiffDb' \in
                          {m_maxAttackCompressionDiffDb, env'.compressionDiffDb}]_vars

\* an attack sub-block kept a maximum larger than its own compressionDiffDb
C18_Witness ==
    /\ pc = "loop"
    /\ ~env.isReleasing
    /\ FLt(env.compressionDiffDb, m_maxAttackCompressionDiffDb)

\* C19: scaledDesiredGain, envelopeRate and the mode are computed at the start
\* of a sub-block from m_detectorAverage and m_compressorGain, which hold what
\* the last sample of the previous sub-block left; the passes of the inner
\* loop change none of them, and what they do to detectorAverage reaches
\* m_detectorAverage only when the sub-block ends.
C19_ModeDecidedOncePerSubBlock ==
    [][/\ (pc = "division" /\ pc' = "loop") =>
              /\ env'.scaledDesiredGain =
                     FDiv(asinf(FixGremlins(m_detectorAverage, One)), HalfPi)
              /\ env'.isReleasing = FGt(env'.scaledDesiredGain, m_compressorGain)
              /\ env' = Envelope(blk, FixGremlins(m_detectorAverage, One),
                                 m_compressorGain, m_maxAttackCompressionDiffDb)
              /\ (last.frame >= 0 /\ op' = op /\ division > 0) =>
                     /\ m_detectorAverage = detectorAverage
                     /\ m_compressorGain = compressorGain
       /\ pc = "loop" =>
              /\ env' = env
              /\ m_maxAttackCompressionDiffDb' = m_maxAttackCompressionDiffDb
              /\ IF loopFrames = 1
                 THEN m_detectorAverage' = detectorAverage'
                 ELSE m_detectorAverage' = m_detectorAverage]_vars

\* in the middle of a sub-block the detector has moved away from the value
\* the sub-block's mode was decided from
C19_Witness ==
    /\ pc = "loop"
    /\ loopFrames < nDivisionFrames
    /\ division > 0
    /\ detectorAverage # m_detectorAverage
    /\ env.scaledDesiredGain = FDiv(asinf(m_detectorAverage), HalfPi)
    /\ env.scaledDesiredGain # FDiv(asinf(detectorAverage), HalfPi)

\* |a - b| <= eps, for finite a and b
Near(a, b, eps) == IsFinite(a) /\ IsFinite(b) /\ Abs(a - b) <= eps

SteadyEpsilon == 1000

\* C12 (as stated): after a second of a constant input below the linear
\* threshold, totalGain is within a small epsilon of 1.
C12_TotalGainConvergesToOne ==
    (op = "process" /\ last.frame >= 0 /\ Len(hist) >= sampleRate \div Kilo) =>
        Near(last.totalGain, One, SteadyEpsilon)

\* C12 (amended): after a second of a constant input below the linear
\* threshold, compressorGain is within ten epsilon of 1 and totalGain within
\* a small epsilon of masterLinearGain, which is the makeup gain of the
\* curve, ( 1 / saturate( 1, k ) ) ^ 0.6.
C12_TotalGainConvergesToMakeupGain ==
    /\ op = "process" =>
           blk.masterLinearGain =
               powf(FDiv(One, saturate(curve.c, One, curve.c.m_K)), 600000)
    /\ (op = "process" /\ last.frame >= 0 /\ Len(hist) >= sampleRate \div Kilo) =>
           /\ Near(m_compressorGain, One, 10 * SteadyEpsilon)
           /\ Near(last.totalGain, blk.masterLinearGain, SteadyEpsilon)

\* a second of the quiet signal has been processed and the makeup gain is
\* well above 1
C12_Witness ==
    /\ op = "process"
    /\ pc = "idle"
    /\ Len(hist) >= sampleRate \div Kilo
    /\ \A i \in 1..Len(hist) : hist[i][0] = 30000
    /\ FLt(30000, curve.c.m_linearThreshold)
    /\ blk.masterLinearGain > One + 100 * SteadyEpsilon
    /\ Near(last.totalGain, blk.masterLinearGain, SteadyEpsilon)

\* C11: two runs that start from states differing in m_meteringGain only and
\* get the same calls show the same after every step: the same samples in the
\* caller's buffer and the same detector average, compressor gain, maximum
\* attack difference, look-ahead buffer and indices.
C11_MeteringNotFedBack ==
    (phase = 2 /\ pos > 0) => Visible = recorded[pos].visible

\* in the middle of a block the two runs have different metering gains and
\* show the same
C11_Witness ==
    /\ phase = 2
    /\ pos > 0
    /\ pc = "loop"
    /\ last.frame >= 0
    /\ m_meteringGain # recorded[pos].m_meteringGain
    /\ Visible = recorded[pos].visible
    /\ \E ch \in Channels : buffer[ch][last.frame] # 0

\* ---------------------------------------------------------- file watcher

\* C14: load() invokes the callback once before it returns and watch() does
\* not invoke it, so that update() invokes a callback only when it sees a file
\* of the watch modified: every emission of update() is for a file written
\* since the watch was made or since its callback last ran for that file.
C14_CallbackOnlyWhenModified == \A i \in DOMAIN emitted : emitted[i].by = "update" => emitted[i].modified

\* a step that is a call of unwatch()
UnwatchStep == fwOp'.op = "unwatch" /\ fwCalls' = fwCalls + 1 /\ Len(mWatchList') = Len(mWatchList)

\* whether the watch lists the path
Lists(w, filePath) == \E j \in DOMAIN w.mFilePaths : w.mFilePaths[j] = filePath

\* C15 (as stated): after unwatch(path) every single-file watch of path is
\* marked discarded and no multi-file watch lists path; a multi-file watch is
\* marked discarded by the call exactly when path was its last remaining
\* file; a watch that does not involve path is unchanged.
C15_UnwatchDiscardsAtLastFile ==
    [][UnwatchStep =>
           \A i \in DOMAIN mWatchList :
               /\ (~mWatchList[i].many /\ Lists(mWatchList[i], fwOp'.path))
                      => mWatchList'[i].mDiscarded
               /\ mWatchList[i].many => ~Lists(mWatchList'[i], fwOp'.path)
               /\ (mWatchList[i].many /\ ~mWatchList[i].mDiscarded) =>
                      (mWatchList'[i].mDiscarded <=>
                           /\ Lists(mWatchList[i], fwOp'.path)
                           /\ mWatchList'[i].mFilePaths = <<>>)
               /\ ~Lists(mWatchList[i], fwOp'.path)
                      => mWatchList'[i] = mWatchList[i]]_watchVars

\* C15 (amended): after unwatch(path) every single-file watch of path is
\* marked discarded and every multi-file watch has lost path from its list
\* and kept its other files in their order; a multi-file watch is marked
\* discarded by the call exactly when its list is empty after the removal,
\* which is so also for a watch made with an empty list, whatever path is;
\* every other watch that does not involve path is unchanged.
C15_UnwatchDiscardsEmptyList ==
    [][UnwatchStep =>
           \A i \in DOMAIN mWatchList :
               /\ (~mWatchList[i].many /\ Lists(mWatchList[i], fwOp'.path))
                      => mWatchList'[i].mDiscarded
               /\ mWatchList[i].many =>
                      mWatchList'[i].mFilePaths
                          = SelectSeq(mWatchList[i].mFilePaths,
                                      LAMBDA fp : fp # fwOp'.path)
               /\ (mWatchList[i].many /\ ~mWatchList[i].mDiscarded) =>
                      (mWatchList'[i].mDiscarded <=>
                           mWatchList'[i].mFilePaths = <<>>)
               /\ (~Lists(mWatchList[i], fwOp'.path)
                       /\ ~(mWatchList[i].many /\ mWatchList[i].mFilePaths = <<>>))
                      => mWatchList'[i] = mWatchList[i]]_watchVars

\* unwatch() has removed the last of the two files of a multi-file watch and
\* marked it discarded
C15_Witness ==
    /\ fwOp.op = "unwatch"
    /\ \E i \in DOMAIN mWatchList :
           /\ mWatchList[i].many
           /\ mWatchList[i].mDiscarded
           /\ mWatchList[i].mFilePaths = <<>>
           /\ Len(mWatchList[i].mTimeStamps) = 2

C20_UpdateNeverBlocks ==
    [][/\ upc' = "loop" => mMutex' = "update" /\ wpc' = "idle"
       /\ (wpc = "locked" /\ wpc' = "locked") =>
              /\ upc' = "idle"
              /\ lastUpdate' = "skipped"
              /\ mWatchList' = mWatchList
              /\ emitted' = emitted
              /\ checkedDiscarded' = checkedDiscarded
       /\ (upc = "loop" /\ upc' = "idle" /\ lastUpdate' = "ran") =>
              /\ left' = {}
              /\ \A i \in DOMAIN mWatchList' :
                     (/\ ~mWatchList'[i].many
                      /\ ~mWatchList'[i].mDiscarded
                      /\ mWatchList'[i].slots > 0
                      /\ mWatchList'[i].mFilePaths[1] \in onDisk)
                         => mWatchList'[i].mTimeStamps[1]
                                = fileTime[mWatchList'[i].mFilePaths[1]]
      ]_watchVars

\* update() was called while load() or watch() held the mutex and has
\* returned, leaving a discarded watch in the list
C20_Witness == wpc = "locked" /\ upc = "idle" /\ lastUpdate = "skipped" /\ left # {}

\* C21: a call of load() or watch() with a bad path (an empty one, or one
\* that is neither an existing absolute path nor the name of an existing
\* asset), or with a vector that holds one, throws FileWatcherException: it returns with the watch list and
\* the emitted callbacks as they were, without the mutex and with no watch
\* left to add; a call whose paths are all good does not throw.
C21_BadPathThrows ==
    [][(fwCalls' = fwCalls + 1 /\ fwOp'.op \in {"load", "watch"}) =>
           IF \E i \in DOMAIN fwOp'.paths :
                  \/ fwOp'.paths[i] = ""
                  \/ /\ ~(IsAbsolute(fwOp'.paths[i]) /\ fwOp'.paths[i] \in onDisk)
                     /\ getAssetPath(fwOp'.paths[i]) \notin onDisk
           THEN /\ fwOp'.thrown
                /\ mWatchList' = mWatchList
                /\ emitted' = emitted
                /\ mMutex' = mMutex
                /\ wpc' = "idle"
                /\ wcall' = NoCall
           ELSE /\ ~fwOp'.thrown
                /\ wpc' = "locked"
                /\ Len(wcall'.watch.mFilePaths) = Len(fwOp'.paths)
      ]_watchVars

\* load() of two files, the second of them bad, has thrown and left the
\* watch there was in the list
C21_Witness ==
    /\ fwOp.op = "load"
    /\ fwOp.thrown
    /\ fwOp.paths = <<"/a", "c">>
    /\ Len(mWatchList) = 1
    /\ emitted = <<>>

\* C22: whenever the loop of update() runs checkCurrent() on a watch with no
\* connected slot, single-file or multi-file, the watch is marked discarded
\* and no callback is emitted, whether its files exist or not.
C22_NoSlotsMeansDiscarded ==
    [][(upc = "loop" /\ upc' = "loop" /\ it' = it + 1
            /\ mWatchList[it].slots = 0) =>
           /\ mWatchList'[it].mDiscarded
           /\ emitted' = emitted
      ]_watchVars

\* ------------------------------------------------------------- silent input

\* whether process() has been given zeros only since the node was initialized
\* or reset: every frame written since the look-ahead buffer was last zeroed
\* is a frame of this call and is silent, and so is the rest of the block
SilentSinceReset ==
    /\ op = "process"
    /\ Len(hist) = frameIndex
    /\ \A i \in DOMAIN hist : \A ch \in Channels : hist[i][ch] = 0
    /\ \A ch \in Channels : \A f \in DOMAIN buffer[ch] : buffer[ch][f] = 0

\* C23 (as stated): while process() has been given silent blocks only since
\* initialize() or reset(), compressorGain is 1 after every sub-block.
C23_SilenceKeepsGainAtOne == SilentSinceReset => m_compressorGain = One

\* ------------------------------------------------- frame index and indices

\* C24: every pass of the inner loop of process() reads and writes the frame
\* frameIndex of the block, which is in [0, numFrames), then moves frameIndex
\* and both look-ahead indices on by one (modulo capacity) and touches no
\* other frame of the block; the members take the loop's indices at the end
\* of a sub-block and change at no other step of the call; so, counted from
\* the values setPreDelayTime leaves at the entry, both members have advanced
\* by the number of frames whose output was produced when process() returns,
\* for blocks whose length is a multiple of 32 and for the others.
C24_FramesAndIndicesInStep ==
    /\ [](op = "process" =>
             /\ frameIndex <= framesToProcess
             /\ frameIndex = nDivisionFrames * division
                                 + (IF pc = "loop" THEN nDivisionFrames - loopFrames ELSE 0)
             /\ pc # "loop" => m_preDelayReadIndex = Len(hist) % MaxPreDelayFrames
             /\ pc = "loop" => preDelayReadIndex = Len(hist) % MaxPreDelayFrames)
    /\ [][/\ pc = "loop" =>
                /\ 0 <= frameIndex /\ frameIndex < framesToProcess
                /\ frameIndex' = frameIndex + 1
                /\ last'.frame = frameIndex
                /\ hist' = Append(hist, [ch \in Channels |-> buffer[ch][frameIndex]])
                /\ \A ch \in Channels : \A f \in DOMAIN buffer[ch] :
                       f # frameIndex => buffer'[ch][f] = buffer[ch][f]
                /\ preDelayReadIndex' = (preDelayReadIndex + 1) % MaxPreDelayFrames
                /\ preDelayWriteIndex' = (preDelayWriteIndex + 1) % MaxPreDelayFrames
                /\ IF pc' = "loop"
                   THEN /\ m_preDelayReadIndex' = m_preDelayReadIndex
                        /\ m_preDelayWriteIndex' = m_preDelayWriteIndex
                   ELSE /\ m_preDelayReadIndex'
                               = (m_preDelayReadIndex + nDivisionFrames) % MaxPreDelayFrames
                        /\ m_preDelayWriteIndex'
                               = (m_preDelayWriteIndex + nDivisionFrames) % MaxPreDelayFrames
                        /\ m_preDelayReadIndex' = preDelayReadIndex'
                        /\ m_preDelayWriteIndex' = preDelayWriteIndex'
          /\ pc = "division" =>
                /\ frameIndex' = frameIndex
                /\ buffer' = buffer
                /\ preDelayReadIndex' = m_preDelayReadIndex
                /\ preDelayWriteIndex' = m_preDelayWriteIndex
                /\ m_preDelayReadIndex' = m_preDelayReadIndex
                /\ m_preDelayWriteIndex' = m_preDelayWriteIndex
         ]_vars

\* process() has returned from a block of 40 frames with 32 of them handled,
\* at 192 kHz, where the write index has wrapped around
C24_Witness ==
    /\ op = "process"
    /\ pc = "idle"
    /\ framesToProcess = 40
    /\ frameIndex = 32
    /\ m_preDelayReadIndex = 32
    /\ m_preDelayWriteIndex < m_preDelayReadIndex

====
